---- MODULE Spec2Model ----
(***************************************************************************)
(* Model of scripts/amalgamated.py of csbench: the script that merges      *)
(* csbench.h and the seven csbench*.c files into csbench_amalgamated.c.    *)
(*                                                                         *)
(* A line is a sequence of one-character strings, exactly as readlines()   *)
(* returns it: the line terminator "\n", when the line has one, is its     *)
(* last character.  A fragment is a sequence of lines.                     *)
(***************************************************************************)
EXTENDS Integers, Sequences, FiniteSets, TLC

(***************************************************************************)
(* Bounds of the model.                                                    *)
(***************************************************************************)
\* longest fragment, in lines, that the filter is applied to
MaxLines == 3

(***************************************************************************)
(* Text of the program's string literals.                                  *)
(***************************************************************************)
\* "//"
COMMENT_PREFIX == <<"/","/">>

\* "#include \"csbench.h\""
INCLUDE_SELF == <<"#","i","n","c","l","u","d","e"," ","\"","c","s","b","e","n","c","h",".","h","\"">>

\* "#ifndef CSBENCH_H"
IFNDEF_GUARD == <<"#","i","f","n","d","e","f"," ","C","S","B","E","N","C","H","_","H">>

\* "#define CSBENCH_H"
DEFINE_GUARD == <<"#","d","e","f","i","n","e"," ","C","S","B","E","N","C","H","_","H">>

\* "#endif // CSBENCH_H"
ENDIF_GUARD == <<"#","e","n","d","i","f"," ","/","/"," ","C","S","B","E","N","C","H","_","H">>

\* the line terminator that readlines() leaves at the end of a line
NL == "\n"

\* a separator of two blank lines
SeparatorDouble == <<<<NL>>, <<NL>>>>

\* the list ["\n"] that the script puts between two blocks
Separator == <<<<NL>>>>

\* the characters str.isspace() accepts
Whitespace == {" ", "\t", "\n", "\r", "\f"}

(***************************************************************************)
(* str methods used by the script.                                         *)
(***************************************************************************)
\* it.startswith(prefix)
startswith(it, prefix) ==
    /\ Len(it) >= Len(prefix)
    /\ SubSeq(it, 1, Len(prefix)) = prefix

\* needle in it      (substring test)
In(needle, it) ==
    \E i \in 1..(Len(it) - Len(needle) + 1) :
        SubSeq(it, i, i + Len(needle) - 1) = needle

\* it.isspace(): at least one character and all of them whitespace
isspace(it) ==
    /\ Len(it) > 0
    /\ \A i \in 1..Len(it) : it[i] \in Whitespace

(***************************************************************************)
(* itertools.takewhile / itertools.dropwhile with the script's predicate   *)
(* lambda it: it.startswith("//").                                         *)
(***************************************************************************)
RECURSIVE takewhile(_)
takewhile(l) ==
    IF l = <<>> THEN <<>>
    ELSE IF startswith(Head(l), COMMENT_PREFIX)
         THEN <<Head(l)>> \o takewhile(Tail(l))
         ELSE <<>>

\* a dropwhile that goes on past the first line that fails the predicate
dropwhile_all(l) ==
    LET keep(it) == ~startswith(it, COMMENT_PREFIX)
    IN  SelectSeq(l, keep)

RECURSIVE dropwhile(_)
dropwhile(l) ==
    IF l = <<>> THEN <<>>
    ELSE IF startswith(Head(l), COMMENT_PREFIX)
         THEN dropwhile(Tail(l))
         ELSE l

\* list(filter(lambda it: marker not in it, l))
filter_not_in(marker, l) ==
    LET keep(it) == ~In(marker, it)
    IN  SelectSeq(l, keep)

(***************************************************************************)
(* make_core_contents, statement by statement.                             *)
(***************************************************************************)
\* outcome of a call: a returned list, or IndexError
Return(l) == [raised |-> FALSE, value |-> l]
IndexError == [raised |-> TRUE, value |-> <<>>]

Line16(l) == dropwhile(l)

Line17(l) == filter_not_in(INCLUDE_SELF, l)

Line18(l) == filter_not_in(IFNDEF_GUARD, l)

\* line 19 with the marker of line 18
Line19_ifndef(l) == filter_not_in(IFNDEF_GUARD, l)

Line19(l) == filter_not_in(DEFINE_GUARD, l)

Line20(l) == filter_not_in(ENDIF_GUARD, l)

\* while lines[0].isspace(): lines = lines[1:]
\* lines[0] of an empty list raises IndexError
\* "if" in place of "while" at line 21
TrimLeadingOnce(l) ==
    IF l = <<>> THEN IndexError
    ELSE IF isspace(l[1]) THEN Return(Tail(l))
         ELSE Return(l)

RECURSIVE TrimLeading(_)
TrimLeading(l) ==
    IF l = <<>> THEN IndexError
    ELSE IF isspace(l[1]) THEN TrimLeading(Tail(l))
         ELSE Return(l)

\* while lines[-1].isspace(): lines = lines[:-1]
\* lines[-1] of an empty list raises IndexError
\* "if" in place of "while" at line 23
TrimTrailingOnce(l) ==
    IF l = <<>> THEN IndexError
    ELSE IF isspace(l[Len(l)]) THEN Return(SubSeq(l, 1, Len(l) - 1))
         ELSE Return(l)

RECURSIVE TrimTrailing(_)
TrimTrailing(l) ==
    IF l = <<>> THEN IndexError
    ELSE IF isspace(l[Len(l)]) THEN TrimTrailing(SubSeq(l, 1, Len(l) - 1))
         ELSE Return(l)

make_core_contents(l) ==
    LET filtered == Line20(Line19(Line18(Line17(Line16(l)))))
        leading  == TrimLeading(filtered)
    IN  IF leading.raised THEN IndexError
        ELSE TrimTrailing(leading.value)

(***************************************************************************)
(* State.                                                                  *)
(*   disk                 the eight input files in the working directory   *)
(*   dest                 csbench_amalgamated.c                            *)
(*   files                the dict filled by the load loop                 *)
(*   preample             the list bound at line 13                        *)
(*   amalgamated_source   the list built by the expression of lines 27-42  *)
(*   operand              how many make_core_contents operands of that     *)
(*                        expression have been evaluated                   *)
(*   pc, error            position of the script and the exception that    *)
(*                        ended it                                         *)
(*   opens                how often the destination was opened for writing *)
(*   arg, lines, fpc, ret one activation of make_core_contents: argument,  *)
(*                        local variable, position, values returned        *)
(***************************************************************************)
VARIABLES disk, dest, files, preample, amalgamated_source, operand, pc, error,
          opens, arg, lines, fpc, ret

vars == <<disk, dest, files, preample, amalgamated_source, operand, pc, error,
          opens, arg, lines, fpc, ret>>

scriptVars == <<disk, dest, files, amalgamated_source, operand, pc, error, opens>>

(***************************************************************************)
(* Fragments as readlines() can return them: every line ends with "\n",    *)
(* except that the last line of a file may lack it; no line is empty.      *)
(***************************************************************************)
\* line bodies (a line without its terminator)
B_COMMENT == <<"/","/"," ","c">>
B_EMPTY == <<>>
B_SPACE == <<" ">>
B_CODE == <<"i","n","t"," ","x",";">>
B_OTHER_MACRO == DEFINE_GUARD \o <<"_","X">>
B_TRAILING_COMMENT == <<"y",";"," ","/","/"," ">> \o INCLUDE_SELF
B_LIC == <<"/","/"," ","l","i","c">>
B_LIC2 == <<"/","/"," ","l","i","c","2">>

Bodies ==
    { B_COMMENT, B_EMPTY, B_SPACE, B_CODE, INCLUDE_SELF, IFNDEF_GUARD,
      DEFINE_GUARD, ENDIF_GUARD, B_OTHER_MACRO, B_TRAILING_COMMENT }

\* the lines of a file whose last line is terminated
Terminated(bs) == [i \in 1..Len(bs) |-> bs[i] \o <<NL>>]

\* the lines of a file whose last line is not terminated
Unterminated(bs) ==
    [i \in 1..Len(bs) |-> IF i = Len(bs) THEN bs[i] ELSE bs[i] \o <<NL>>]

BodySeqs == UNION { [1..k -> Bodies] : k \in 0..MaxLines }

\* the header of the guard example: two comment lines, the guard, one
\* declaration
ScenarioA ==
    Terminated(<<B_LIC, B_LIC2, IFNDEF_GUARD, DEFINE_GUARD, B_CODE, ENDIF_GUARD>>)

Inputs ==
    { Terminated(bs) : bs \in BodySeqs }
    \cup { Unterminated(bs) : bs \in { b \in BodySeqs : Len(b) > 0 /\ b[Len(b)] # <<>> } }
    \cup { ScenarioA }

(***************************************************************************)
(* Lines 13 and 15-25 applied to one fragment, one statement per step.     *)
(* The value returned is passed to make_core_contents once more.           *)
(***************************************************************************)
NoFiles == [n \in {} |-> <<>>]

NoDisk == [n \in {} |-> [exists |-> FALSE, lines |-> <<>>]]

NoDest == [exists |-> FALSE, text |-> <<>>]

InitFilter ==
    /\ arg \in Inputs
    /\ lines = <<>>
    /\ fpc = "l13"
    /\ ret = <<>>
    /\ preample = <<>>
    /\ disk = NoDisk
    /\ dest = NoDest
    /\ files = NoFiles
    /\ amalgamated_source = <<>>
    /\ operand = 0
    /\ pc = "filter"
    /\ error = "none"
    /\ opens = 0

\* preample = list(itertools.takewhile(..., files["csbench.h"]))
FLine13 ==
    /\ fpc = "l13"
    /\ preample' = takewhile(arg)
    /\ fpc' = "call"
    /\ UNCHANGED <<arg, lines, ret>>
    /\ UNCHANGED scriptVars

\* make_core_contents(arg): bind the parameter
FCall ==
    /\ fpc = "call"
    /\ lines' = arg
    /\ fpc' = "l16"
    /\ UNCHANGED <<arg, ret, preample>>
    /\ UNCHANGED scriptVars

FLine16 ==
    /\ fpc = "l16"
    /\ lines' = Line16(lines)
    /\ fpc' = "l17"
    /\ UNCHANGED <<arg, ret, preample>>
    /\ UNCHANGED scriptVars

FLine17 ==
    /\ fpc = "l17"
    /\ lines' = Line17(lines)
    /\ fpc' = "l18"
    /\ UNCHANGED <<arg, ret, preample>>
    /\ UNCHANGED scriptVars

FLine18 ==
    /\ fpc = "l18"
    /\ lines' = Line18(lines)
    /\ fpc' = "l19"
    /\ UNCHANGED <<arg, ret, preample>>
    /\ UNCHANGED scriptVars

FLine19 ==
    /\ fpc = "l19"
    /\ lines' = Line19(lines)
    /\ fpc' = "l20"
    /\ UNCHANGED <<arg, ret, preample>>
    /\ UNCHANGED scriptVars

FLine20 ==
    /\ fpc = "l20"
    /\ lines' = Line20(lines)
    /\ fpc' = "l21"
    /\ UNCHANGED <<arg, ret, preample>>
    /\ UNCHANGED scriptVars

\* the loop of lines 21-22
FLine21 ==
    /\ fpc = "l21"
    /\ LET r == TrimLeading(lines)
       IN  IF r.raised
           THEN /\ fpc' = "raised"
                /\ UNCHANGED lines
           ELSE /\ fpc' = "l23"
                /\ lines' = r.value
    /\ UNCHANGED <<arg, ret, preample>>
    /\ UNCHANGED scriptVars

\* the loop of lines 23-24
FLine23 ==
    /\ fpc = "l23"
    /\ LET r == TrimTrailing(lines)
       IN  IF r.raised
           THEN /\ fpc' = "raised"
                /\ UNCHANGED lines
           ELSE /\ fpc' = "l25"
                /\ lines' = r.value
    /\ UNCHANGED <<arg, ret, preample>>
    /\ UNCHANGED scriptVars

\* return lines
FLine25 ==
    /\ fpc = "l25"
    /\ ret' = Append(ret, lines)
    /\ fpc' = "returned"
    /\ UNCHANGED <<arg, lines, preample>>
    /\ UNCHANGED scriptVars

\* make_core_contents(make_core_contents(arg))
FReapply ==
    /\ fpc = "returned"
    /\ Len(ret) = 1
    /\ arg' = ret[1]
    /\ fpc' = "call"
    /\ UNCHANGED <<lines, ret, preample>>
    /\ UNCHANGED scriptVars

NextFilter ==
    \/ FLine13
    \/ FCall
    \/ FLine16
    \/ FLine17
    \/ FLine18
    \/ FLine19
    \/ FLine20
    \/ FLine21
    \/ FLine23
    \/ FLine25
    \/ FReapply

FilterSpec == InitFilter /\ [][NextFilter]_vars

(***************************************************************************)
(* The script.                                                             *)
(***************************************************************************)
\* the load order, lines 5-7
file_names ==
    << "csbench.h", "csbench.c", "csbench_plot.c", "csbench_perf.c",
       "csbench_utils.c", "csbench_run.c", "csbench_report.c",
       "csbench_analyze.c" >>

\* the operands taken in the load order
MergeOrderAsLoaded ==
    << "csbench.h", "csbench.c", "csbench_plot.c", "csbench_perf.c",
       "csbench_utils.c", "csbench_run.c", "csbench_report.c",
       "csbench_analyze.c" >>

\* the order of the make_core_contents operands, lines 28-42
MergeOrder ==
    << "csbench.h", "csbench_run.c", "csbench_analyze.c", "csbench_report.c",
       "csbench_utils.c", "csbench_plot.c", "csbench_perf.c", "csbench.c" >>

Names == { file_names[i] : i \in 1..Len(file_names) }

\* "".join(l)
RECURSIVE join(_)
join(l) == IF l = <<>> THEN <<>> ELSE Head(l) \o join(Tail(l))

\* contents a file of the working directory may have
B_DECL_A == <<"i","n","t"," ","a",";">>
B_DECL_B == <<"i","n","t"," ","b",";">>

HeaderPlain ==
    Terminated(<<IFNDEF_GUARD, DEFINE_GUARD, B_EMPTY, B_CODE, B_EMPTY, ENDIF_GUARD>>)

ImplTerminated ==
    Terminated(<<B_COMMENT, INCLUDE_SELF, B_EMPTY, B_SPACE, B_DECL_A, B_EMPTY,
                 B_DECL_B, B_EMPTY, B_EMPTY>>)

ImplUnterminated ==
    Unterminated(<<INCLUDE_SELF, B_EMPTY, B_COMMENT, B_DECL_B>>)

BannerOnly == Terminated(<<B_COMMENT, B_EMPTY>>)

File(l) == [exists |-> TRUE, lines |-> l]

NotFound == [exists |-> FALSE, lines |-> <<>>]

DiskChoices(name) ==
    IF name = "csbench.h"
    THEN { File(ScenarioA), File(HeaderPlain), NotFound }
    ELSE { File(ImplTerminated), File(ImplUnterminated), File(BannerOnly), NotFound }

\* an artifact left by an earlier run
OldDest == [exists |-> TRUE, text |-> <<"o","l","d",NL>>]

Init ==
    /\ disk \in { d \in [Names -> UNION { DiskChoices(n) : n \in Names }] :
                    \A n \in Names : d[n] \in DiskChoices(n) }
    /\ dest \in { NoDest, OldDest }
    /\ files = NoFiles
    /\ preample = <<>>
    /\ amalgamated_source = <<>>
    /\ operand = 0
    /\ pc = "load"
    /\ error = "none"
    /\ opens = 0
    /\ arg = <<>>
    /\ lines = <<>>
    /\ fpc = "idle"
    /\ ret = <<>>

\* a load loop that takes a missing file for an empty one and goes on
LoadSkipMissing ==
    /\ pc = "load"
    /\ LET name == file_names[Cardinality(DOMAIN files) + 1]
       IN  /\ files' = [n \in DOMAIN files \cup {name} |->
                           IF n = name THEN disk[name].lines ELSE files[n]]
           /\ pc' = IF Cardinality(DOMAIN files) + 1 = Len(file_names)
                    THEN "l13" ELSE "load"
    /\ UNCHANGED <<disk, dest, preample, amalgamated_source, operand, error, opens>>
    /\ UNCHANGED <<arg, lines, fpc, ret>>

\* one iteration of the loop of lines 9-11; open() of a missing file raises
\* FileNotFoundError, which nothing catches
Load ==
    /\ pc = "load"
    /\ LET name == file_names[Cardinality(DOMAIN files) + 1]
       IN  IF disk[name].exists
           THEN /\ files' = [n \in DOMAIN files \cup {name} |->
                                IF n = name THEN disk[name].lines ELSE files[n]]
                /\ pc' = IF Cardinality(DOMAIN files) + 1 = Len(file_names)
                         THEN "l13" ELSE "load"
                /\ UNCHANGED error
           ELSE /\ pc' = "aborted"
                /\ error' = "FileNotFoundError"
                /\ UNCHANGED files
    /\ UNCHANGED <<disk, dest, preample, amalgamated_source, operand, opens>>
    /\ UNCHANGED <<arg, lines, fpc, ret>>

\* line 13
Line13 ==
    /\ pc = "l13"
    /\ preample' = takewhile(files["csbench.h"])
    /\ pc' = "assemble"
    /\ UNCHANGED <<disk, dest, files, amalgamated_source, operand, error, opens>>
    /\ UNCHANGED <<arg, lines, fpc, ret>>

\* an assembly that writes what it has when an operand raises
AssembleWriteAnyway ==
    /\ pc = "assemble"
    /\ LET core == make_core_contents(files[MergeOrder[operand + 1]])
           left == IF operand = 0 THEN preample
                   ELSE amalgamated_source \o Separator
       IN  IF core.raised
           THEN /\ pc' = "open"
                /\ error' = "IndexError"
                /\ UNCHANGED <<amalgamated_source, operand>>
           ELSE /\ amalgamated_source' = left \o core.value
                /\ operand' = operand + 1
                /\ pc' = IF operand + 1 = Len(MergeOrder) THEN "open" ELSE "assemble"
                /\ UNCHANGED error
    /\ UNCHANGED <<disk, dest, files, preample, opens>>
    /\ UNCHANGED <<arg, lines, fpc, ret>>

\* lines 27-42, one make_core_contents operand per step, left to right; an
\* IndexError raised by an operand ends the script
Assemble ==
    /\ pc = "assemble"
    /\ LET core == make_core_contents(files[MergeOrder[operand + 1]])
           left == IF operand = 0 THEN preample
                   ELSE amalgamated_source \o Separator
       IN  IF core.raised
           THEN /\ pc' = "aborted"
                /\ error' = "IndexError"
                /\ UNCHANGED <<amalgamated_source, operand>>
           ELSE /\ amalgamated_source' = left \o core.value
                /\ operand' = operand + 1
                /\ pc' = IF operand + 1 = Len(MergeOrder) THEN "open" ELSE "assemble"
                /\ UNCHANGED error
    /\ UNCHANGED <<disk, dest, files, preample, opens>>
    /\ UNCHANGED <<arg, lines, fpc, ret>>

\* line 44: open(..., "w") creates the file or truncates it
Open ==
    /\ pc = "open"
    /\ dest' = [exists |-> TRUE, text |-> <<>>]
    /\ opens' = opens + 1
    /\ pc' = "write"
    /\ UNCHANGED <<disk, files, preample, amalgamated_source, operand, error>>
    /\ UNCHANGED <<arg, lines, fpc, ret>>

\* line 45
Write ==
    /\ pc = "write"
    /\ dest' = [exists |-> TRUE, text |-> join(amalgamated_source)]
    /\ pc' = "done"
    /\ UNCHANGED <<disk, files, preample, amalgamated_source, operand, error, opens>>
    /\ UNCHANGED <<arg, lines, fpc, ret>>

Next ==
    \/ Load
    \/ Line13
    \/ Assemble
    \/ Open
    \/ Write

Spec == Init /\ [][Next]_vars

(***************************************************************************)
(* Reference definitions used to state the properties.                     *)
(***************************************************************************)
IsComment(it) == Len(it) >= 2 /\ it[1] = "/" /\ it[2] = "/"

IsBlank(it) == it # <<>> /\ \A i \in 1..Len(it) : it[i] \in Whitespace

\* a line without its terminator
Body(it) ==
    IF it # <<>> /\ it[Len(it)] = NL THEN SubSeq(it, 1, Len(it) - 1) ELSE it

IsTerminated(it) == it # <<>> /\ it[Len(it)] = NL

Markers == { INCLUDE_SELF, IFNDEF_GUARD, DEFINE_GUARD, ENDIF_GUARD }

\* the line is one of the four directives and nothing more
IsDirectiveLine(it) == Body(it) \in Markers

\* the line has the text of one of the four directives somewhere in it
HasMarker(it) == \E m \in Markers : In(m, it)

\* length of the maximal leading run of comment lines
CommentRun(l) ==
    CHOOSE n \in 0..Len(l) :
        /\ \A i \in 1..n : IsComment(l[i])
        /\ n = Len(l) \/ ~IsComment(l[n + 1])

\* steps 1-4 of the reference filter
RefSteps1to4(l) ==
    LET rest == SubSeq(l, CommentRun(l) + 1, Len(l))
        keep(it) == ~HasMarker(it)
    IN  SelectSeq(rest, keep)

\* steps 5-6 of the reference filter
RefTrim(l) ==
    LET solid == { i \in 1..Len(l) : ~IsBlank(l[i]) }
    IN  IF solid = {} THEN <<>>
        ELSE SubSeq(l, CHOOSE i \in solid : \A j \in solid : i <= j,
                       CHOOSE i \in solid : \A j \in solid : i >= j)

Reference(l) == RefTrim(RefSteps1to4(l))

(***************************************************************************)
(* Properties of make_core_contents and of line 13, under FilterSpec.      *)
(***************************************************************************)
\* the current call of make_core_contents has ended
CallEnded == fpc \in {"returned", "raised"}

\* C1: a fragment that steps 1-4 leave empty or all blank (a comment banner
\* followed by blank lines, say) makes make_core_contents return the empty
\* list, and no error is raised.
C1_EmptyCoreReturned ==
    (CallEnded /\ \A i \in 1..Len(RefSteps1to4(arg)) : IsBlank(RefSteps1to4(arg)[i]))
        => (fpc = "returned" /\ ret[Len(ret)] = <<>>)

\* C2: whenever make_core_contents returns a result, applying it to that
\* result returns the same result.
C2_Idempotent ==
    /\ ~(fpc = "raised" /\ Len(ret) = 1)
    /\ Len(ret) = 2 => ret[2] = ret[1]

\* C2, amended: whenever make_core_contents returns a result whose first line
\* is not a comment line, applying it to that result returns the same result.
C2_IdempotentUnlessCommentFirst ==
    (Len(ret) >= 1 /\ ~IsComment(ret[1][1]))
        => /\ fpc # "raised"
           /\ Len(ret) = 2 => ret[2] = ret[1]

\* a second call has returned the result of the first, which was shorter
\* than the fragment
C2_Witness ==
    /\ Len(ret) = 2
    /\ ret[2] = ret[1]
    /\ Len(ret[1]) = 2
    /\ ~IsComment(ret[1][1])
    /\ fpc = "returned"

\* C5: every result of make_core_contents is the result of the six-step
\* reference filter (leading comment run, self-inclusion, guard opening, guard
\* closing, leading blanks, trailing blanks, in this order), and the header
\* [comment, comment, #ifndef, #define, "int x;", #endif] gives ["int x;"].
C5_SixSteps ==
    fpc = "returned"
        => /\ ret[Len(ret)] = Reference(arg)
           /\ arg = ScenarioA => ret[Len(ret)] = <<B_CODE \o <<NL>>>>

\* a blank line that leads only because the guard line before it was removed
\* has been trimmed
C5_Witness ==
    /\ fpc = "returned"
    /\ arg = Terminated(<<IFNDEF_GUARD, B_EMPTY, B_CODE>>)
    /\ ret = <<<<B_CODE \o <<NL>>>>>>

\* C6: line 13 and step 1 split the fragment without loss: the preamble is
\* the maximal prefix of comment lines, it is empty when the first line is
\* not a comment line, and preamble ++ rest is the fragment.
C6_LosslessSplit ==
    (fpc = "l17" /\ ret = <<>>)
        => /\ preample \o lines = arg
           /\ \A i \in 1..Len(preample) : IsComment(preample[i])
           /\ lines # <<>> => ~IsComment(lines[1])
           /\ (arg # <<>> /\ ~IsComment(arg[1])) => preample = <<>>

\* a fragment with a comment line after its banner has been split
C6_Witness ==
    /\ fpc = "l17"
    /\ ret = <<>>
    /\ arg = Terminated(<<B_COMMENT, B_CODE, B_COMMENT>>)
    /\ preample = Terminated(<<B_COMMENT>>)
    /\ lines = Terminated(<<B_CODE, B_COMMENT>>)

\* C9: steps 2-4 remove the four directive lines themselves and nothing
\* else: a line that only contains the text of a directive inside a longer
\* line is kept.
C9_OnlyDirectiveLinesRemoved ==
    fpc = "l21"
        => LET keep(it) == ~IsDirectiveLine(it)
           IN  lines = SelectSeq(dropwhile(arg), keep)

\* C9, amended: steps 2-4 remove the lines that contain the text of one of
\* the four directives anywhere in them, and nothing else; the other lines
\* keep their order.
C9_LinesWithMarkerRemoved ==
    fpc = "l21"
        => LET keep(it) == ~HasMarker(it)
           IN  lines = SelectSeq(SubSeq(arg, CommentRun(arg) + 1, Len(arg)), keep)

\* a #define of a longer macro name has been removed and a declaration kept
C9_Witness ==
    /\ fpc = "l21"
    /\ arg = Terminated(<<B_OTHER_MACRO, B_CODE, DEFINE_GUARD>>)
    /\ lines = Terminated(<<B_CODE>>)

(***************************************************************************)
(* Properties of the script, under Spec.                                   *)
(***************************************************************************)
Missing == \E n \in Names : ~disk[n].exists

\* the expression of lines 27-42 has been evaluated
Assembled == pc \in {"open", "write", "done"}

\* the filtered core of a loaded fragment
CoreOf(name) == make_core_contents(files[name]).value

BlankLine == <<NL>>

\* C3: when one of the eight fragments is missing the run ends in the load
\* loop with FileNotFoundError, and csbench_amalgamated.c is neither created
\* nor truncated nor modified.
C3_MissingFragmentAborts ==
    /\ [](Missing => /\ pc \in {"load", "aborted"}
                     /\ pc = "aborted" => error = "FileNotFoundError"
                     /\ opens = 0)
    /\ [][Missing => dest' = dest]_vars

\* the run was aborted at the third fragment, with an older artifact in place
C3_Witness ==
    /\ pc = "aborted"
    /\ error = "FileNotFoundError"
    /\ Cardinality(DOMAIN files) = 2
    /\ ~disk["csbench_plot.c"].exists
    /\ dest = OldDest

\* C4: on a successful run the assembled lines are the preamble, then the
\* cores of csbench.h, csbench_run.c, csbench_analyze.c, csbench_report.c,
\* csbench_utils.c, csbench_plot.c, csbench_perf.c, csbench.c in this order,
\* each once, with one blank line between two cores, none after the preamble
\* and none at the end.
C4_MergeOrder ==
    Assembled
        => amalgamated_source =
               preample
               \o CoreOf("csbench.h") \o <<BlankLine>>
               \o CoreOf("csbench_run.c") \o <<BlankLine>>
               \o CoreOf("csbench_analyze.c") \o <<BlankLine>>
               \o CoreOf("csbench_report.c") \o <<BlankLine>>
               \o CoreOf("csbench_utils.c") \o <<BlankLine>>
               \o CoreOf("csbench_plot.c") \o <<BlankLine>>
               \o CoreOf("csbench_perf.c") \o <<BlankLine>>
               \o CoreOf("csbench.c")

\* a run has ended with fragments whose cores differ, so that the order shows
C4_Witness ==
    /\ pc = "done"
    /\ preample # <<>>
    /\ files["csbench_run.c"] = ImplTerminated
    /\ files["csbench.c"] = ImplUnterminated
    /\ files["csbench_plot.c"] = ImplUnterminated
    /\ files["csbench_perf.c"] = ImplTerminated

\* position of the k-th separator in the assembled lines
SepPos(k) ==
    LET RECURSIVE Sum(_)
        Sum(j) == IF j = 0 THEN 0 ELSE Len(CoreOf(MergeOrder[j])) + Sum(j - 1)
    IN  Len(preample) + Sum(k) + k

\* C7: in the assembled lines every separator stands between the last line
\* of one core and the first line of the next, and both are not blank: no
\* core between separators is empty and no two separators are adjacent.
C7_SeparatorsBetweenSolidLines ==
    Assembled
        => \A k \in 1..(Len(MergeOrder) - 1) :
              LET p == SepPos(k)
                  before == CoreOf(MergeOrder[k])
                  after == CoreOf(MergeOrder[k + 1])
              IN  /\ before # <<>>
                  /\ after # <<>>
                  /\ amalgamated_source[p] = BlankLine
                  /\ amalgamated_source[p - 1] = before[Len(before)]
                  /\ amalgamated_source[p + 1] = after[1]
                  /\ ~IsBlank(amalgamated_source[p - 1])
                  /\ ~IsBlank(amalgamated_source[p + 1])

\* the lines were assembled from fragments that had blank lines around
\* their cores
C7_Witness ==
    /\ Assembled
    /\ \A k \in 2..Len(MergeOrder) : files[MergeOrder[k]] = ImplTerminated
    /\ Len(amalgamated_source) = Len(preample) + 1 + 7 * 4

\* C8: the destination is opened for writing only after all eight fragments
\* are loaded and all eight cores computed; it is opened at most once, and
\* exactly once on a run that succeeds; a run that a fatal error ends never
\* opens it, and the destination changes in the writer only.
C8_WriteLast ==
    /\ [](/\ opens <= 1
          /\ opens = 1 => (DOMAIN files = Names /\ operand = Len(MergeOrder))
          /\ pc \in {"l13", "assemble"} => DOMAIN files = Names
          /\ pc = "done" => opens = 1
          /\ pc = "aborted" => opens = 0)
    /\ [][dest' # dest =>
            /\ pc \in {"open", "write"}
            /\ DOMAIN files = Names
            /\ operand = Len(MergeOrder)
            /\ error = "none"]_vars

\* a run whose sixth operand raised IndexError has left the older artifact
C8_Witness ==
    /\ pc = "aborted"
    /\ error = "IndexError"
    /\ operand = 5
    /\ opens = 0
    /\ dest = OldDest

\* the text split at its line terminators; characters after the last
\* terminator make a last line
TextLines(text) ==
    LET ends == { i \in 1..Len(text) : text[i] = NL }
        nth(k) == CHOOSE p \in ends : Cardinality({ q \in ends : q < p }) = k - 1
        full == [k \in 1..Cardinality(ends) |->
                    SubSeq(text, (IF k = 1 THEN 0 ELSE nth(k - 1)) + 1, nth(k) - 1)]
        last == IF ends = {} THEN 0 ELSE nth(Cardinality(ends))
    IN  IF last < Len(text)
        THEN Append(full, SubSeq(text, last + 1, Len(text)))
        ELSE full

Bodies_(l) == [i \in 1..Len(l) |-> Body(l[i])]

\* the lines of the text expected when gap(k) stands between block k and
\* block k+1
RECURSIVE BlocksText(_, _)
BlocksText(k, gap) ==
    IF k = 1 THEN Bodies_(preample) \o Bodies_(CoreOf(MergeOrder[1]))
    ELSE BlocksText(k - 1, gap) \o gap[k - 1] \o Bodies_(CoreOf(MergeOrder[k]))

\* C10: in the text written, exactly one empty line stands between the last
\* line of a block and the first line of the next block, whatever the
\* fragments hold.
C10_OneEmptyLineBetweenBlocks ==
    pc = "done"
        => TextLines(dest.text) =
               BlocksText(Len(MergeOrder), [k \in 1..(Len(MergeOrder) - 1) |-> <<<<>>>>])

\* C10, amended: in the text written, exactly one empty line stands between
\* two blocks when the last line of the earlier block ends with a line
\* terminator, and none when it does not: the separator then only ends that
\* line.
C10_EmptyLineIfTerminated ==
    pc = "done"
        => TextLines(dest.text) =
               BlocksText(Len(MergeOrder),
                          [k \in 1..(Len(MergeOrder) - 1) |->
                              LET core == CoreOf(MergeOrder[k])
                              IN  IF IsTerminated(core[Len(core)])
                                  THEN <<<<>>>> ELSE <<>>])

\* a text was written whose second block ends without a line terminator
C10_Witness ==
    /\ pc = "done"
    /\ files["csbench_run.c"] = ImplUnterminated
    /\ files["csbench_analyze.c"] = ImplTerminated

====
